---- MODULE Spec2Model ----
(***************************************************************************)
(* EmailGuard: unread-mail triage.  main() authenticates, lists the unread *)
(* messages, extracts each message's content, classifies it by keyword     *)
(* matching and, unless DRY_RUN, asks the provider to move spam to trash.  *)
(*                                                                         *)
(* Text is a sequence of Unicode code points (Python str); bytes are a     *)
(* sequence of 0..255.  Python's None is the empty tuple and a present     *)
(* value x is <<x>> where the two have to be told apart.                   *)
(***************************************************************************)
EXTENDS Integers, Sequences, FiniteSets, TLC

VARIABLES
    pc,               \* where main() (or the function under study) stands
    DRY_RUN,          \* main.py module flag
    credentials_file, \* TRUE iff credentials.json exists
    token_file,       \* token.json: <<>> absent, else <<contents>>
    creds,            \* what authenticate() returned: <<>> or <<credentials>>
    written,          \* every credentials object written to token.json, in order
    message_ids,      \* the ids fetch_unread_messages returned
    idx,              \* 1-based position of the loop in message_ids
    message,          \* the provider's raw message of the last messages.get
    email_data,       \* record returned by get_email_content
    verdict,          \* (is_spam, confidence) returned by analyze_email
    spam_keywords,    \* EmailClassifier.spam_keywords
    api_calls,        \* API requests issued so far by the current client call
    spam_count, safe_count, error_count,
    trace             \* calls made and completed so far, in order

vars == <<pc, DRY_RUN, credentials_file, token_file, creds, written, message_ids,
          idx, message, email_data, verdict, spam_keywords, api_calls,
          spam_count, safe_count, error_count, trace>>

----------------------------------------------------------------------------
(* Bounds of the model *)

MaxSubjectLen == 1
MaxBodyLen == 1
MaxMessages == 2
MaxApiCalls == 3
MaxParts == 2

----------------------------------------------------------------------------
(* Sequences *)

SeqsUpTo(S, n) == UNION {[1..k -> S] : k \in 0..n}

\* Python: needle in haystack (str.__contains__)
Contains(haystack, needle) ==
    \E off \in 0..(Len(haystack) - Len(needle)) :
        SubSeq(haystack, off + 1, off + Len(needle)) = needle

\* Python str.lower() on one code point, for code points below 256
LowerChar(c) ==
    IF c \in 65..90 \/ (c \in 192..222 /\ c # 215) THEN c + 32 ELSE c

Lower(s) == [i \in 1..Len(s) |-> LowerChar(s[i])]

SPACE == <<32>>

----------------------------------------------------------------------------
(* classifier.py *)

DefaultSpamKeywords ==
    << <<117, 114, 103, 101, 110, 116>>,                                     \* urgent
       <<108, 111, 116, 116, 101, 114, 121>>,                                \* lottery
       <<119, 105, 114, 101, 32, 116, 114, 97, 110, 115, 102, 101, 114>>,   \* wire transfer
       <<99, 108, 105, 99, 107, 32, 104, 101, 114, 101>>,                    \* click here
       <<108, 105, 109, 105, 116, 101, 100, 32, 116, 105, 109, 101>>,       \* limited time
       <<97, 99, 116, 32, 110, 111, 119>>,                                   \* act now
       <<119, 105, 110, 110, 101, 114>>,                                     \* winner
       <<112, 114, 105, 122, 101>>,                                          \* prize
       <<99, 111, 110, 103, 114, 97, 116, 117, 108, 97, 116, 105, 111, 110, 115>>, \* congratulations
       <<102, 114, 101, 101, 32, 109, 111, 110, 101, 121>>,                  \* free money
       <<99, 108, 97, 105, 109, 32, 110, 111, 119>>,                         \* claim now
       <<101, 120, 112, 105, 114, 101, 115, 32, 115, 111, 111, 110>>,       \* expires soon
       <<103, 117, 97, 114, 97, 110, 116, 101, 101, 100>>,                   \* guaranteed
       <<114, 105, 115, 107, 45, 102, 114, 101, 101>>,                       \* risk-free
       <<110, 111, 32, 111, 98, 108, 105, 103, 97, 116, 105, 111, 110>>,    \* no obligation
       <<108, 105, 109, 105, 116, 101, 100, 32, 111, 102, 102, 101, 114>>,  \* limited offer
       <<101, 120, 99, 108, 117, 115, 105, 118, 101, 32, 100, 101, 97, 108>>, \* exclusive deal
       <<111, 110, 101, 45, 116, 105, 109, 101, 32, 111, 102, 102, 101, 114>>, \* one-time offer
       <<97, 99, 116, 32, 105, 109, 109, 101, 100, 105, 97, 116, 101, 108, 121>>, \* act immediately
       <<100, 111, 110, 39, 116, 32, 109, 105, 115, 115, 32, 111, 117, 116>> >> \* don't miss out

\* Rationals stand for Python floats: num / den with den > 0.
Rat(n, d) == [num |-> n, den |-> d]
RatZero == Rat(0, 1)
RatOne == Rat(1, 1)
RatLess(x, y) == x.num * y.den < y.num * x.den
RatEq(x, y) == x.num * y.den = y.num * x.den
RatLeq(x, y) == x.num * y.den <= y.num * x.den
RatTimes(x, k) == Rat(x.num * k, x.den)
\* Python min(a, b): b when b < a, else a
RatMin(a, b) == IF RatLess(b, a) THEN b ELSE a

\* A mutant of the normalisation: the text is not lowercased
NormalizedTextNoLower(subject, body) == subject \o SPACE \o body
\* text = f"{subject} {body}".lower()
NormalizedText(subject, body) == Lower(subject \o SPACE \o body)

\* A mutant of the match count: the keyword is not lowercased
CountMatchesNoLower(keywords, text) ==
    Cardinality({i \in 1..Len(keywords) : Contains(text, keywords[i])})

\* sum(1 for keyword in self.spam_keywords if keyword.lower() in text)
CountMatches(keywords, text) ==
    Cardinality({i \in 1..Len(keywords) : Contains(text, Lower(keywords[i]))})

\* A mutant of the confidence: the cap at 1.0 is left out
ConfidenceUncapped(matches, total_keywords) ==
    IF total_keywords > 0 THEN RatTimes(Rat(matches, total_keywords), 2) ELSE RatZero
\* min(1.0, (matches / total_keywords) * 2.0) if total_keywords > 0 else 0.0
Confidence(matches, total_keywords) ==
    IF total_keywords > 0
    THEN RatMin(RatOne, RatTimes(Rat(matches, total_keywords), 2))
    ELSE RatZero

_classify_with_keywords(keywords, subject, body) ==
    LET text == NormalizedText(subject, body)
        matches == CountMatches(keywords, text)
        total_keywords == Len(keywords)
    IN  [is_spam |-> matches > 0,
         confidence |-> Confidence(matches, total_keywords)]

analyze_email(keywords, subject, body) == _classify_with_keywords(keywords, subject, body)

----------------------------------------------------------------------------
(* Library conversions used by gmail_service.py: base64 and UTF-8 *)

Failed == [ok |-> FALSE, value |-> <<>>]
Ok(v) == [ok |-> TRUE, value |-> v]

Repeat(c, n) == [i \in 1..n |-> c]

\* str.replace(old, new) for single characters
ReplaceChar(s, old, new) == [i \in 1..Len(s) |-> IF s[i] = old THEN new ELSE s[i]]

\* binascii's table_a2b_base64: the 6-bit value of a character of the standard
\* alphabet, -1 for any other character
B64Value(c) ==
    IF c \in 65..90 THEN c - 65
    ELSE IF c \in 97..122 THEN c - 71
    ELSE IF c \in 48..57 THEN c + 4
    ELSE IF c = 43 THEN 62
    ELSE IF c = 47 THEN 63
    ELSE -1

\* binascii.a2b_base64(s, strict_mode=False): characters outside the alphabet are
\* skipped, a complete pad sequence ends the input, and leftover characters of an
\* unfinished quad raise binascii.Error.
RECURSIVE A2bScan(_, _, _, _, _, _)
A2bScan(s, i, quad_pos, leftchar, pads, out) ==
    IF i > Len(s) THEN (IF quad_pos # 0 THEN Failed ELSE Ok(out))
    ELSE IF s[i] = 61 THEN
        IF quad_pos >= 2 /\ quad_pos + pads + 1 >= 4 THEN Ok(out)
        ELSE A2bScan(s, i + 1, quad_pos, leftchar,
                     IF quad_pos >= 2 THEN pads + 1 ELSE pads, out)
    ELSE IF B64Value(s[i]) = -1 THEN A2bScan(s, i + 1, quad_pos, leftchar, pads, out)
    ELSE LET v == B64Value(s[i]) IN
        CASE quad_pos = 0 -> A2bScan(s, i + 1, 1, v, 0, out)
          [] quad_pos = 1 ->
                A2bScan(s, i + 1, 2, v % 16, 0, Append(out, leftchar * 4 + v \div 16))
          [] quad_pos = 2 ->
                A2bScan(s, i + 1, 3, v % 4, 0, Append(out, leftchar * 16 + v \div 4))
          [] OTHER ->
                A2bScan(s, i + 1, 0, 0, 0, Append(out, leftchar * 64 + v))

a2b_base64(s) == A2bScan(s, 1, 0, 0, 0, <<>>)

\* base64.b64decode(s) for a str: non-ASCII text raises ValueError
b64decode(s) ==
    IF \E i \in 1..Len(s) : s[i] > 127 THEN Failed ELSE a2b_base64(s)

IsCont(b) == b \in 128..191

\* Length of the well-formed UTF-8 sequence that starts at b[i], 0 if none
Utf8SeqLen(b, i) ==
    LET n == Len(b) - i + 1 IN
    IF b[i] < 128 THEN 1
    ELSE IF b[i] \in 194..223 THEN (IF n >= 2 /\ IsCont(b[i + 1]) THEN 2 ELSE 0)
    ELSE IF b[i] \in 224..239
         THEN (IF /\ n >= 3
                  /\ b[i + 1] \in (IF b[i] = 224 THEN 160 ELSE 128)..(IF b[i] = 237 THEN 159 ELSE 191)
                  /\ IsCont(b[i + 2])
               THEN 3 ELSE 0)
    ELSE IF b[i] \in 240..244
         THEN (IF /\ n >= 4
                  /\ b[i + 1] \in (IF b[i] = 240 THEN 144 ELSE 128)..(IF b[i] = 244 THEN 143 ELSE 191)
                  /\ IsCont(b[i + 2]) /\ IsCont(b[i + 3])
               THEN 4 ELSE 0)
    ELSE 0

\* Bytes of the ill-formed sequence at b[i] that the decoder reports as one
\* error: the lead byte and the continuation bytes that could follow it
Utf8BadLen(b, i) ==
    LET n == Len(b) - i + 1 IN
    IF b[i] \in 224..239
    THEN (IF n >= 2 /\ b[i + 1] \in (IF b[i] = 224 THEN 160 ELSE 128)..(IF b[i] = 237 THEN 159 ELSE 191)
          THEN 2 ELSE 1)
    ELSE IF b[i] \in 240..244
         THEN (IF n >= 2 /\ b[i + 1] \in (IF b[i] = 240 THEN 144 ELSE 128)..(IF b[i] = 244 THEN 143 ELSE 191)
               THEN (IF n >= 3 /\ IsCont(b[i + 2]) THEN 3 ELSE 2)
               ELSE 1)
    ELSE 1

\* The code point of the well-formed sequence of k bytes at b[i]
Utf8CodePoint(b, i, k) ==
    CASE k = 1 -> b[i]
      [] k = 2 -> (b[i] - 192) * 64 + (b[i + 1] - 128)
      [] k = 3 -> (b[i] - 224) * 4096 + (b[i + 1] - 128) * 64 + (b[i + 2] - 128)
      [] OTHER -> (b[i] - 240) * 262144 + (b[i + 1] - 128) * 4096
                  + (b[i + 2] - 128) * 64 + (b[i + 3] - 128)

\* bytes.decode('utf-8', errors='ignore') from b[i] on: ill-formed sequences
\* are dropped
RECURSIVE Utf8IgnoreFrom(_, _)
Utf8IgnoreFrom(b, i) ==
    IF i > Len(b) THEN <<>>
    ELSE IF Utf8SeqLen(b, i) = 0 THEN Utf8IgnoreFrom(b, i + Utf8BadLen(b, i))
    ELSE <<Utf8CodePoint(b, i, Utf8SeqLen(b, i))>> \o Utf8IgnoreFrom(b, i + Utf8SeqLen(b, i))

Utf8DecodeIgnore(b) == Utf8IgnoreFrom(b, 1)

\* TRUE iff b is well-formed UTF-8 from b[i] on
RECURSIVE Utf8ValidFrom(_, _)
Utf8ValidFrom(b, i) ==
    IF i > Len(b) THEN TRUE
    ELSE IF Utf8SeqLen(b, i) = 0 THEN FALSE
    ELSE Utf8ValidFrom(b, i + Utf8SeqLen(b, i))

\* bytes.decode('utf-8'): UnicodeDecodeError on an ill-formed sequence
Utf8DecodeStrict(b) ==
    IF Utf8ValidFrom(b, 1) THEN Ok(Utf8DecodeIgnore(b)) ELSE Failed

----------------------------------------------------------------------------
(* email.header.decode_header, as gmail_service.py uses it *)

\* The least element of a set of positions, 0 for the empty set
FirstOf(J) == IF J = {} THEN 0 ELSE CHOOSE j \in J : \A k \in J : j <= k

\* Smallest j >= i with s[j] = c, or 0
IndexFrom(s, c, i) == FirstOf({j \in i..Len(s) : s[j] = c})

\* Smallest j >= i with s[j] = a and s[j+1] = b, or 0
PairFrom(s, a, b, i) == FirstOf({j \in i..(Len(s) - 1) : s[j] = a /\ s[j + 1] = b})

NoMatch ==
    [found |-> FALSE, start |-> 0, charset |-> <<>>, encoding |-> 0,
     encoded |-> <<>>, end |-> 0]

\* The encoded-word pattern ecre, =?charset?[qQbB]?encoded?= , matched at p
\* with the charset ending at the '?' at q and the text at the "?=" at r
EcreFields(s, p, q, r) ==
    IF /\ p >= 1 /\ p + 1 <= Len(s) /\ s[p] = 61 /\ s[p + 1] = 63
       /\ q # 0 /\ q + 2 <= Len(s)
       /\ s[q + 1] \in {113, 81, 98, 66} /\ s[q + 2] = 63
       /\ r # 0
    THEN [found |-> TRUE, start |-> p, charset |-> SubSeq(s, p + 2, q - 1),
          encoding |-> s[q + 1], encoded |-> SubSeq(s, q + 3, r - 1), end |-> r + 1]
    ELSE NoMatch

EcreCharsetEnd(s, p, q) ==
    EcreFields(s, p, q, IF q = 0 THEN 0 ELSE PairFrom(s, 63, 61, q + 3))

\* charset runs to the next '?', encoded to the next "?=" (both lazy)
EcreMatchAt(s, p) == EcreCharsetEnd(s, p, IndexFrom(s, 63, p + 2))

\* ecre.search(s, pos=i): the leftmost match starting at or after i
EcreSearch(s, i) ==
    EcreMatchAt(s, FirstOf({p \in i..Len(s) : EcreMatchAt(s, p).found}))

\* str.isspace() of one code point below 256
IsSpaceChar(c) == c \in (9..13) \cup (28..32) \cup {133, 160}

RECURSIVE LStrip(_)
LStrip(s) == IF s # <<>> /\ IsSpaceChar(Head(s)) THEN LStrip(Tail(s)) ELSE s

IsSpace(s) == s # <<>> /\ \A i \in 1..Len(s) : IsSpaceChar(s[i])

\* A word of decode_header: (string, encoding, charset); encoding is "q", "b" or
\* "none", charset is <<>> for None and <<name>> otherwise.
Word(string, encoding, charset) ==
    [string |-> string, encoding |-> encoding, charset |-> charset]

UnencodedWord(unencoded) ==
    IF unencoded # <<>> THEN <<Word(unencoded, "none", <<>>)>> ELSE <<>>

\* The loop over ecre.split(line): unencoded text and encoded words in turn;
\* m is the next encoded word at or after i
RECURSIVE EcreSplit(_, _, _, _)
EcreSplit(s, i, first, m) ==
    IF m.found
    THEN UnencodedWord(IF first THEN LStrip(SubSeq(s, i, m.start - 1))
                       ELSE SubSeq(s, i, m.start - 1))
         \o <<Word(m.encoded, IF LowerChar(m.encoding) = 113 THEN "q" ELSE "b",
                   <<Lower(m.charset)>>)>>
         \o EcreSplit(s, m.end + 1, FALSE, EcreSearch(s, m.end + 1))
    ELSE UnencodedWord(IF first THEN LStrip(SubSeq(s, i, Len(s)))
                       ELSE SubSeq(s, i, Len(s)))

EcreWords(s) == EcreSplit(s, 1, TRUE, EcreSearch(s, 1))

\* Whitespace between two encoded words is dropped
Dropped(words, n) ==
    /\ n \in 2..(Len(words) - 1)
    /\ words[n + 1].encoding # "none"
    /\ words[n - 1].encoding # "none"
    /\ IsSpace(words[n].string)

RECURSIVE DropFrom(_, _)
DropFrom(words, n) ==
    IF n > Len(words) THEN <<>>
    ELSE (IF Dropped(words, n) THEN <<>> ELSE <<words[n]>>) \o DropFrom(words, n + 1)

DropSpaceBetweenEncoded(words) == DropFrom(words, 1)

HexValue(c) ==
    IF c \in 48..57 THEN c - 48
    ELSE IF c \in 65..70 THEN c - 55
    ELSE IF c \in 97..102 THEN c - 87
    ELSE -1

\* email.quoprimime.header_decode: '_' is a space, =XX is the character XX
RECURSIVE QHeaderDecodeFrom(_, _)
QHeaderDecodeFrom(s, i) ==
    IF i > Len(s) THEN <<>>
    ELSE IF s[i] = 61 /\ i + 2 <= Len(s) /\ HexValue(s[i + 1]) >= 0 /\ HexValue(s[i + 2]) >= 0
         THEN <<HexValue(s[i + 1]) * 16 + HexValue(s[i + 2])>> \o QHeaderDecodeFrom(s, i + 3)
    ELSE <<IF s[i] = 95 THEN 32 ELSE s[i]>> \o QHeaderDecodeFrom(s, i + 1)

QHeaderDecode(s) == QHeaderDecodeFrom(s, 1)

\* The 'b' branch: pad to a multiple of 4, then email.base64mime.decode
BHeaderDecode(s) ==
    IF s = <<>> THEN Ok(<<>>)
    ELSE IF Len(s) % 4 # 0 THEN a2b_base64(s \o Repeat(61, 4 - (Len(s) % 4)))
    ELSE a2b_base64(s)

WithCharset(r, charset) ==
    IF r.ok THEN Ok([bytes |-> r.value, charset |-> charset]) ELSE Failed

\* One word decoded to (bytes, charset); ok = FALSE is HeaderParseError
DecodeWord(w) ==
    IF w.encoding = "none" THEN Ok([bytes |-> w.string, charset |-> w.charset])
    ELSE IF w.encoding = "q"
         THEN Ok([bytes |-> QHeaderDecode(w.string), charset |-> w.charset])
    ELSE WithCharset(BHeaderDecode(w.string), w.charset)

\* Adjacent words of one charset are joined (with a space if unencoded)
RECURSIVE Collapse(_, _)
Collapse(decoded_words, last) ==
    IF decoded_words = <<>> THEN <<last>>
    ELSE IF Head(decoded_words).charset # last.charset
         THEN <<last>> \o Collapse(Tail(decoded_words), Head(decoded_words))
    ELSE IF last.charset = <<>>
         THEN Collapse(Tail(decoded_words),
                       [bytes |-> last.bytes \o SPACE \o Head(decoded_words).bytes,
                        charset |-> last.charset])
    ELSE Collapse(Tail(decoded_words),
                  [bytes |-> last.bytes \o Head(decoded_words).bytes,
                   charset |-> last.charset])

BytesParts(collapsed) ==
    [n \in 1..Len(collapsed) |->
        [bytes |-> collapsed[n].bytes, charset |-> collapsed[n].charset, is_str |-> FALSE]]

Values(words) == [n \in 1..Len(words) |-> words[n].value]

\* The decoded words collapsed into (part, encoding) pairs
CollapsedParts(words) ==
    IF \E n \in 1..Len(words) : ~words[n].ok THEN Failed
    ELSE Ok(BytesParts(Collapse(Tail(Values(words)), Head(words).value)))

DecodeWords(kept) == CollapsedParts([n \in 1..Len(kept) |-> DecodeWord(kept[n])])

\* decode_header(header) for a one-line header of code points below 256.
\* value: the (part, encoding) pairs; is_str marks the single undecoded str part.
decode_header(header) ==
    IF ~EcreSearch(header, 1).found
    THEN Ok(<<[bytes |-> header, charset |-> <<>>, is_str |-> TRUE]>>)
    ELSE DecodeWords(DropSpaceBetweenEncoded(EcreWords(header)))

----------------------------------------------------------------------------
(* gmail_service.py: content extraction *)

\* The codecs of Python that the model decodes, each with its module name in
\* the encodings package and the keys of encodings.aliases that lead to it.
\* A charset is one of these names, in any spelling that normalises to it, or
\* a name Python has no codec for; the other codecs of Python (koi8_r, cp1251,
\* shift_jis, utf_32, ...) are outside the model.

Codecs ==
  <<
      \* cp65001, u8, utf, utf8, utf8_ucs2, utf8_ucs4
     [module |-> "utf_8",
      name |-> <<117, 116, 102, 95, 56>>,
      aliases |-> {<<99, 112, 54, 53, 48, 48, 49>>,
                   <<117, 56>>,
                   <<117, 116, 102>>,
                   <<117, 116, 102, 56>>,
                   <<117, 116, 102, 56, 95, 117, 99, 115, 50>>,
                   <<117, 116, 102, 56, 95, 117, 99, 115, 52>>}],
     [module |-> "utf_8_sig",
      name |-> <<117, 116, 102, 95, 56, 95, 115, 105, 103>>,
      aliases |-> {}],
      \* 8859, cp819, csisolatin1, ibm819, iso8859, iso8859_1, iso_8859_1, iso_8859_1_1987, iso_ir_100, l1, latin, latin1
     [module |-> "latin_1",
      name |-> <<108, 97, 116, 105, 110, 95, 49>>,
      aliases |-> {<<56, 56, 53, 57>>,
                   <<99, 112, 56, 49, 57>>,
                   <<99, 115, 105, 115, 111, 108, 97, 116, 105, 110, 49>>,
                   <<105, 98, 109, 56, 49, 57>>,
                   <<105, 115, 111, 56, 56, 53, 57>>,
                   <<105, 115, 111, 56, 56, 53, 57, 95, 49>>,
                   <<105, 115, 111, 95, 56, 56, 53, 57, 95, 49>>,
                   <<105, 115, 111, 95, 56, 56, 53, 57, 95, 49, 95, 49, 57, 56, 55>>,
                   <<105, 115, 111, 95, 105, 114, 95, 49, 48, 48>>,
                   <<108, 49>>,
                   <<108, 97, 116, 105, 110>>,
                   <<108, 97, 116, 105, 110, 49>>}],
      \* 646, ansi_x3.4_1968, ansi_x3.4_1986, ansi_x3_4_1968, cp367, csascii, ibm367, iso646_us, iso_646.irv_1991, iso_ir_6, us, us_ascii
     [module |-> "ascii",
      name |-> <<97, 115, 99, 105, 105>>,
      aliases |-> {<<54, 52, 54>>,
                   <<97, 110, 115, 105, 95, 120, 51, 46, 52, 95, 49, 57, 54, 56>>,
                   <<97, 110, 115, 105, 95, 120, 51, 46, 52, 95, 49, 57, 56, 54>>,
                   <<97, 110, 115, 105, 95, 120, 51, 95, 52, 95, 49, 57, 54, 56>>,
                   <<99, 112, 51, 54, 55>>,
                   <<99, 115, 97, 115, 99, 105, 105>>,
                   <<105, 98, 109, 51, 54, 55>>,
                   <<105, 115, 111, 54, 52, 54, 95, 117, 115>>,
                   <<105, 115, 111, 95, 54, 52, 54, 46, 105, 114, 118, 95, 49, 57, 57, 49>>,
                   <<105, 115, 111, 95, 105, 114, 95, 54>>,
                   <<117, 115>>,
                   <<117, 115, 95, 97, 115, 99, 105, 105>>}],
      \* 1252, windows_1252
     [module |-> "cp1252",
      name |-> <<99, 112, 49, 50, 53, 50>>,
      aliases |-> {<<49, 50, 53, 50>>,
                   <<119, 105, 110, 100, 111, 119, 115, 95, 49, 50, 53, 50>>}],
      \* u16, utf16
     [module |-> "utf_16",
      name |-> <<117, 116, 102, 95, 49, 54>>,
      aliases |-> {<<117, 49, 54>>,
                   <<117, 116, 102, 49, 54>>}],
      \* unicodelittleunmarked, utf_16le
     [module |-> "utf_16_le",
      name |-> <<117, 116, 102, 95, 49, 54, 95, 108, 101>>,
      aliases |-> {<<117, 110, 105, 99, 111, 100, 101, 108, 105, 116, 116, 108, 101, 117, 110, 109, 97, 114, 107, 101, 100>>,
                   <<117, 116, 102, 95, 49, 54, 108, 101>>}],
      \* unicodebigunmarked, utf_16be
     [module |-> "utf_16_be",
      name |-> <<117, 116, 102, 95, 49, 54, 95, 98, 101>>,
      aliases |-> {<<117, 110, 105, 99, 111, 100, 101, 98, 105, 103, 117, 110, 109, 97, 114, 107, 101, 100>>,
                   <<117, 116, 102, 95, 49, 54, 98, 101>>}]
  >>

\* encodings.cp1252.decoding_table for the bytes 128..159; 65534 marks a byte
\* the code page leaves undefined
Cp1252Table ==
    <<8364, 65534, 8218, 402, 8222, 8230, 8224, 8225,
      710, 8240, 352, 8249, 338, 65534, 381, 65534,
      65534, 8216, 8217, 8220, 8221, 8226, 8211, 8212,
      732, 8482, 353, 8250, 339, 65534, 382, 376>>

IsAsciiAlnum(c) == c \in (48..57) \cup (65..90) \cup (97..122)

\* The codec registry's normalisation of a name: ASCII letters and digits in
\* lower case and the dot are kept, every run of other characters between two
\* kept ones becomes one underscore
RECURSIVE NormalizeFrom(_, _, _, _)
NormalizeFrom(s, i, punct, out) ==
    IF i > Len(s) THEN out
    ELSE IF IsAsciiAlnum(s[i]) \/ s[i] = 46
         THEN NormalizeFrom(s, i + 1, FALSE,
                  (IF punct /\ out # <<>> THEN Append(out, 95) ELSE out)
                      \o <<LowerChar(s[i])>>)
    ELSE NormalizeFrom(s, i + 1, TRUE, out)

normalize_encoding(encoding) == NormalizeFrom(encoding, 1, FALSE, <<>>)

\* encodings.aliases.aliases.get(name), "" for None
AliasedEncoding(name) ==
    IF \E k \in 1..Len(Codecs) : name \in Codecs[k].aliases
    THEN Codecs[FirstOf({k \in 1..Len(Codecs) : name \in Codecs[k].aliases})].module
    ELSE ""

\* The module of the encodings package a normalised name is itself, "" if none
ModuleNamed(name) ==
    IF \E k \in 1..Len(Codecs) : name = Codecs[k].name
    THEN Codecs[FirstOf({k \in 1..Len(Codecs) : name = Codecs[k].name})].module
    ELSE ""

\* encodings.search_function on a normalised name: the alias of the name, else
\* the alias of the name with dots as underscores, else the name as a module
SearchFunction(norm_encoding) ==
    IF AliasedEncoding(norm_encoding) # "" THEN AliasedEncoding(norm_encoding)
    ELSE IF AliasedEncoding(ReplaceChar(norm_encoding, 46, 95)) # ""
         THEN AliasedEncoding(ReplaceChar(norm_encoding, 46, 95))
    ELSE ModuleNamed(norm_encoding)

\* The codec that bytes.decode(encoding) looks up, "" for a LookupError
CodecLookup(encoding) == SearchFunction(normalize_encoding(encoding))

\* cp1252: a charmap codec; the bytes it leaves undefined are errors
Cp1252Char(b) == IF b \in 128..159 THEN Cp1252Table[b - 127] ELSE b

Cp1252Decode(bytes) ==
    IF \E i \in 1..Len(bytes) : Cp1252Char(bytes[i]) = 65534 THEN Failed
    ELSE Ok([i \in 1..Len(bytes) |-> Cp1252Char(bytes[i])])

\* The UTF-16 code unit at b[i], b[i + 1]
Utf16Unit(b, i, big) ==
    IF big THEN b[i] * 256 + b[i + 1] ELSE b[i] + b[i + 1] * 256

\* Bytes of the well-formed UTF-16 sequence that starts at b[i], 0 if none: a
\* unit outside the surrogates, or a high surrogate and a low surrogate
Utf16SeqLen(b, i, big) ==
    IF Len(b) - i + 1 < 2 THEN 0
    ELSE IF Utf16Unit(b, i, big) \notin 55296..57343 THEN 2
    ELSE IF /\ Utf16Unit(b, i, big) <= 56319
            /\ Len(b) - i + 1 >= 4
            /\ Utf16Unit(b, i + 2, big) \in 56320..57343
         THEN 4
    ELSE 0

Utf16CodePoint(b, i, big) ==
    IF Utf16SeqLen(b, i, big) = 2 THEN Utf16Unit(b, i, big)
    ELSE 65536 + (Utf16Unit(b, i, big) - 55296) * 1024
               + (Utf16Unit(b, i + 2, big) - 56320)

RECURSIVE Utf16ValidFrom(_, _, _)
Utf16ValidFrom(b, i, big) ==
    IF i > Len(b) THEN TRUE
    ELSE IF Utf16SeqLen(b, i, big) = 0 THEN FALSE
    ELSE Utf16ValidFrom(b, i + Utf16SeqLen(b, i, big), big)

RECURSIVE Utf16From(_, _, _)
Utf16From(b, i, big) ==
    IF i > Len(b) THEN <<>>
    ELSE <<Utf16CodePoint(b, i, big)>> \o Utf16From(b, i + Utf16SeqLen(b, i, big), big)

\* utf_16_le / utf_16_be from b[i] on: UnicodeDecodeError on a truncated unit
\* or an unpaired surrogate
Utf16Decode(b, i, big) ==
    IF Utf16ValidFrom(b, i, big) THEN Ok(Utf16From(b, i, big)) ELSE Failed

HasPrefix(b, prefix) ==
    Len(b) >= Len(prefix) /\ SubSeq(b, 1, Len(prefix)) = prefix

\* utf_16: a byte order mark chooses the byte order and is dropped; without
\* one the byte order is the machine's, little-endian
Utf16DecodeBom(b) ==
    IF HasPrefix(b, <<255, 254>>) THEN Utf16Decode(b, 3, FALSE)
    ELSE IF HasPrefix(b, <<254, 255>>) THEN Utf16Decode(b, 3, TRUE)
    ELSE Utf16Decode(b, 1, FALSE)

\* utf_8_sig: strict UTF-8 after an optional byte order mark
Utf8SigDecode(b) ==
    IF HasPrefix(b, <<239, 187, 191>>)
    THEN Utf8DecodeStrict(SubSeq(b, 4, Len(b)))
    ELSE Utf8DecodeStrict(b)

\* The codec's decode, by module name; ok = FALSE is a UnicodeDecodeError, or
\* the LookupError when no codec was found
CodecDecode(codec, bytes) ==
    CASE codec = "utf_8" -> Utf8DecodeStrict(bytes)
      [] codec = "utf_8_sig" -> Utf8SigDecode(bytes)
      [] codec = "latin_1" -> Ok(bytes)
      [] codec = "ascii" ->
           (IF \A i \in 1..Len(bytes) : bytes[i] < 128 THEN Ok(bytes) ELSE Failed)
      [] codec = "cp1252" -> Cp1252Decode(bytes)
      [] codec = "utf_16" -> Utf16DecodeBom(bytes)
      [] codec = "utf_16_le" -> Utf16Decode(bytes, 1, FALSE)
      [] codec = "utf_16_be" -> Utf16Decode(bytes, 1, TRUE)
      [] OTHER -> Failed

\* part.decode(encoding): a name with a NUL character is a ValueError; empty
\* bytes decode to '' before any codec is looked up; LookupError for a name no
\* codec answers to; UnicodeDecodeError for bytes the codec rejects
BytesDecode(bytes, encoding) ==
    IF \E i \in 1..Len(encoding) : encoding[i] = 0 THEN Failed
    ELSE IF bytes = <<>> THEN Ok(<<>>)
    ELSE CodecDecode(CodecLookup(encoding), bytes)

\* One step of the loop of _decode_header: a str part is appended as it is,
\* bytes with an encoding are decoded with it, other bytes as UTF-8 (ignore)
DecodePart(part) ==
    IF part.is_str THEN Ok(part.bytes)
    ELSE IF part.charset # <<>> /\ part.charset[1] # <<>>
         THEN BytesDecode(part.bytes, part.charset[1])
    ELSE Ok(Utf8DecodeIgnore(part.bytes))

\* The loop of _decode_header over decoded_parts
RECURSIVE DecodeParts(_, _)
DecodeParts(decoded_parts, decoded_string) ==
    IF decoded_parts = <<>> THEN Ok(decoded_string)
    ELSE IF DecodePart(Head(decoded_parts)).ok
         THEN DecodeParts(Tail(decoded_parts),
                          decoded_string \o DecodePart(Head(decoded_parts)).value)
    ELSE Failed

\* The try block of _decode_header; ok = FALSE is any exception
TryDecodeHeader(parsed) ==
    IF parsed.ok THEN DecodeParts(parsed.value, <<>>) ELSE Failed

OrElse(r, default) == IF r.ok THEN r.value ELSE default

\* A mutant of the except branch: the empty string instead of the raw value
DecodeHeaderOrEmpty(header_value) ==
    OrElse(TryDecodeHeader(decode_header(header_value)), <<>>)

\* GmailClient._decode_header: any exception returns header_value unchanged
_decode_header(header_value) ==
    OrElse(TryDecodeHeader(decode_header(header_value)), header_value)

\* data += '=' * padding, unless padding is 4
Padded(data) ==
    IF 4 - (Len(data) % 4) # 4 THEN data \o Repeat(61, 4 - (Len(data) % 4)) ELSE data

\* decoded_bytes.decode('utf-8', errors='ignore') if b64decode returned
Utf8Ignored(decoded_bytes) ==
    IF decoded_bytes.ok THEN Ok(Utf8DecodeIgnore(decoded_bytes.value)) ELSE Failed

\* GmailClient._decode_base64url
_decode_base64url(data) ==
    OrElse(Utf8Ignored(b64decode(ReplaceChar(ReplaceChar(Padded(data), 45, 43), 95, 47))),
           <<>>)

\* dict.get(key, default)
Get(d, key, default) == IF key \in DOMAIN d THEN d[key] ELSE default

\* part.get('body', {}).get('data', '')
PartData(part) == Get(Get(part, "body", [none |-> <<>>]), "data", <<>>)

MimeType(part) == Get(part, "mimeType", "")

\* The body after the loop of _extract_body has looked at `part`; the loop
\* breaks at a text/plain part with data
BodyAfter(part, body) ==
    IF MimeType(part) = "text/html" /\ body = <<>> /\ PartData(part) # <<>>
    THEN _decode_base64url(PartData(part))
    ELSE body

\* A mutant of the loop: a text/plain part sets the body without the break
RECURSIVE ScanPartsNoBreak(_, _)
ScanPartsNoBreak(parts, body) ==
    IF parts = <<>> THEN body
    ELSE IF MimeType(Head(parts)) = "text/plain" /\ PartData(Head(parts)) # <<>>
         THEN ScanPartsNoBreak(Tail(parts), _decode_base64url(PartData(Head(parts))))
    ELSE ScanPartsNoBreak(Tail(parts), BodyAfter(Head(parts), body))

\* The loop of _extract_body over payload['parts']; returning is the break
RECURSIVE ScanParts(_, _)
ScanParts(parts, body) ==
    IF parts = <<>> THEN body
    ELSE IF MimeType(Head(parts)) = "text/plain" /\ PartData(Head(parts)) # <<>>
         THEN _decode_base64url(PartData(Head(parts)))
    ELSE ScanParts(Tail(parts), BodyAfter(Head(parts), body))

\* GmailClient._extract_body
_extract_body(payload) ==
    IF "parts" \in DOMAIN payload
    THEN ScanParts(payload.parts, <<>>)
    ELSE IF Get(payload, "mimeType", "") \in {"text/plain", "text/html"}
              /\ PartData(payload) # <<>>
         THEN _decode_base64url(PartData(payload))
    ELSE <<>>

HeaderSubject == <<115, 117, 98, 106, 101, 99, 116>>   \* subject
HeaderFrom == <<102, 114, 111, 109>>                    \* from

\* The loop of get_email_content over the headers: the last Subject and the
\* last From win
RECURSIVE ScanHeaders(_, _)
ScanHeaders(headers, found) ==
    IF headers = <<>> THEN found
    ELSE IF Lower(Head(headers).name) = HeaderSubject
         THEN ScanHeaders(Tail(headers),
                          [found EXCEPT !.subject = _decode_header(Head(headers).value)])
    ELSE IF Lower(Head(headers).name) = HeaderFrom
         THEN ScanHeaders(Tail(headers),
                          [found EXCEPT !.from_email = Head(headers).value])
    ELSE ScanHeaders(Tail(headers), found)

\* get_email_content once messages.get has answered with `msg`
ContentRecord(found, body, snippet) ==
    [subject |-> found.subject, body |-> body, snippet |-> snippet,
     from_email |-> found.from_email]

ExtractContent(msg) ==
    ContentRecord(ScanHeaders(Get(msg.payload, "headers", <<>>),
                              [subject |-> <<>>, from_email |-> <<>>]),
                  _extract_body(msg.payload),
                  Get(msg, "snippet", <<>>))


----------------------------------------------------------------------------
(* Values of the variables outside the part of the program a specification runs *)

NoMessage == [payload |-> [headers |-> <<>>], snippet |-> <<>>]
NoEmail == [subject |-> <<>>, body |-> <<>>, snippet |-> <<>>, from_email |-> <<>>]
NoVerdict == [is_spam |-> FALSE, confidence |-> RatZero]

----------------------------------------------------------------------------
(* The classifier alone: analyze_email on bounded keyword lists and texts *)

TextAlphabet == {97, 65, 98}    \* a, A, b

Subjects == SeqsUpTo(TextAlphabet, MaxSubjectLen)
Bodies == SeqsUpTo(TextAlphabet, MaxBodyLen)

Phrases == << <<97>>, <<66>>, <<97, 32, 98>>, <<98, 97>> >>    \* a, B, "a b", ba

\* The phrases at the positions in S, in order
SubList(S) ==
    LET F[k \in 0..Len(Phrases)] ==
            IF k = 0 THEN <<>>
            ELSE IF k \in S THEN Append(F[k - 1], Phrases[k]) ELSE F[k - 1]
    IN  F[Len(Phrases)]

KeywordLists == {SubList(S) : S \in SUBSET (1..Len(Phrases))}

InitClassify ==
    /\ pc = "analyze_email"
    /\ spam_keywords \in KeywordLists
    /\ email_data \in [subject : Subjects, body : Bodies,
                       snippet : {<<>>}, from_email : {<<>>}]
    /\ verdict = NoVerdict
    /\ DRY_RUN = TRUE /\ credentials_file = TRUE /\ token_file = <<>>
    /\ creds = <<>> /\ written = <<>> /\ message_ids = <<>> /\ idx = 0
    /\ message = NoMessage /\ api_calls = 0
    /\ spam_count = 0 /\ safe_count = 0 /\ error_count = 0 /\ trace = <<>>

AnalyzeEmail ==
    /\ pc = "analyze_email"
    /\ verdict' = analyze_email(spam_keywords, email_data.subject, email_data.body)
    /\ pc' = "analyzed"
    /\ UNCHANGED <<DRY_RUN, credentials_file, token_file, creds, written, message_ids,
                   idx, message, email_data, spam_keywords, api_calls,
                   spam_count, safe_count, error_count, trace>>

NextClassify == AnalyzeEmail

SpecClassify == InitClassify /\ [][NextClassify]_vars

----------------------------------------------------------------------------
(* The extractor alone: get_email_content on bounded raw messages *)

Header(name, value) == [name |-> name, value |-> value]

NameSubject == <<83, 117, 98, 106, 101, 99, 116>>    \* Subject
NameSUBJECT == <<83, 85, 66, 74, 69, 67, 84>>        \* SUBJECT
NameFROM == <<70, 82, 79, 77>>                        \* FROM
NameXId == <<88, 45, 73, 100>>                        \* X-Id
Sender == <<97, 64, 98, 46, 99>>                      \* a@b.c

SubjectValues ==
    { <<72, 105>>,                                                            \* Hi
      <<61, 63, 117, 116, 102, 45, 56, 63, 113, 63, 72, 61, 67, 51, 61, 65, 57, 63, 61>>,
                                                                              \* =?utf-8?q?H=C3=A9?=
      <<61, 63, 117, 116, 102, 45, 56, 63, 98, 63, 83, 71, 107, 61, 63, 61>>, \* =?utf-8?b?SGk=?=
      <<61, 63, 117, 116, 102, 45, 56, 63, 98, 63, 65, 63, 61>>,              \* =?utf-8?b?A?=
      <<61, 63, 120, 45, 117, 110, 107, 110, 111, 119, 110, 63, 113, 63, 97, 63, 61>>,
                                                                              \* =?x-unknown?q?a?=
      <<61, 63, 117, 116, 102, 45, 56, 63, 113, 63, 61, 70, 70, 63, 61>>,     \* =?utf-8?q?=FF?=
      <<82, 101, 58, 32, 61, 63, 117, 116, 102, 45, 56, 63, 113, 63, 97, 63, 61, 32, 98>>,
                                                                              \* Re: =?utf-8?q?a?= b
      <<61, 63, 117, 115, 45, 97, 115, 99, 105, 105, 63, 113, 63, 61, 69, 57, 63, 61>>,
                                                                              \* =?us-ascii?q?=E9?=
      <<61, 63, 108, 97, 116, 105, 110, 49, 63, 113, 63, 61, 69, 57, 63, 61>>, \* =?latin1?q?=E9?=
      <<61, 63, 99, 112, 49, 50, 53, 50, 63, 113, 63, 61, 56, 49, 63, 61>> }   \* =?cp1252?q?=81?=

HeaderLists ==
    {<<>>}
    \cup {<<Header(NameSubject, v)>> : v \in SubjectValues}
    \cup {<<Header(NameFROM, Sender), Header(NameXId, v), Header(NameSUBJECT, v)>> :
            v \in SubjectValues}

\* base64url data: empty, "Hi", "<b>", undecodable (one character of a quad),
\* and the byte FF, which decodes to the empty text
DataHi == <<83, 71, 107>>      \* SGk
DataB == <<80, 71, 73, 45>>    \* PGI-
DataBad == <<65>>              \* A
DataFF == <<95, 119>>          \* _w

DataValues == {<<>>, DataHi, DataB, DataBad, DataFF}

Part(mime_type, data) == [mimeType |-> mime_type, body |-> [data |-> data]]

PartValues ==
    {Part(m, d) : m \in {"text/plain", "text/html"}, d \in DataValues}
    \cup {Part("image/png", DataHi), [mimeType |-> "text/plain"]}

Payloads(headers) ==
    {[headers |-> headers, mimeType |-> "multipart/alternative", parts |-> ps] :
        ps \in SeqsUpTo(PartValues, MaxParts)}
    \cup {[headers |-> headers, mimeType |-> p.mimeType, body |-> p.body] :
            p \in PartValues \ {[mimeType |-> "text/plain"]}}
    \cup {[headers |-> headers]}

RawMessages ==
    UNION {{[payload |-> p, snippet |-> <<115>>], [payload |-> p]} :
            p \in UNION {Payloads(h) : h \in HeaderLists}}

InitExtract ==
    /\ pc = "get_email_content"
    /\ message \in RawMessages
    /\ email_data = NoEmail
    /\ verdict = NoVerdict
    /\ spam_keywords = DefaultSpamKeywords
    /\ DRY_RUN = TRUE /\ credentials_file = TRUE /\ token_file = <<>>
    /\ creds = <<>> /\ written = <<>> /\ message_ids = <<>> /\ idx = 0
    /\ api_calls = 0
    /\ spam_count = 0 /\ safe_count = 0 /\ error_count = 0 /\ trace = <<>>

\* messages.get has answered with `message`; the rest of get_email_content runs
Extract ==
    /\ pc = "get_email_content"
    /\ email_data' = ExtractContent(message)
    /\ pc' = "extracted"
    /\ UNCHANGED <<DRY_RUN, credentials_file, token_file, creds, written, message_ids,
                   idx, message, verdict, spam_keywords, api_calls,
                   spam_count, safe_count, error_count, trace>>

NextExtract == Extract

SpecExtract == InitExtract /\ [][NextExtract]_vars


----------------------------------------------------------------------------
(* auth.py *)

Credentials(valid, expired, refresh_token, source) ==
    [valid |-> valid, expired |-> expired, refresh_token |-> refresh_token,
     source |-> source]

\* token.json as a run may find it: absent, unparseable, or holding a token
\* that is valid, expired with a refresh token, expired without one, or
\* neither valid nor expired (no access token, no expiry)
StoredTokens ==
    {Credentials(TRUE, FALSE, TRUE, "stored"),
     Credentials(FALSE, TRUE, TRUE, "stored"),
     Credentials(FALSE, TRUE, FALSE, "stored"),
     Credentials(FALSE, FALSE, TRUE, "stored")}

TokenFiles ==
    {<<>>, <<[parseable |-> FALSE]>>}
    \cup {<<[parseable |-> TRUE, creds |-> c]>> : c \in StoredTokens}

RefreshOutcomes == {"refreshed", "RefreshError", "TransportError"}
FlowOutcomes == {"authorized", "error"}

Raised == [raised |-> TRUE, creds |-> <<>>, written |-> <<>>]
Returned(c, w) == [raised |-> FALSE, creds |-> c, written |-> w]

\* Credentials.from_authorized_user_file; ValueError leaves creds = None
LoadToken(file) ==
    IF file # <<>> /\ file[1].parseable THEN <<file[1].creds>> ELSE <<>>

\* authenticate() past the credentials.json check.  refresh and flow are what
\* creds.refresh and flow.run_local_server do if they are reached.
authenticate(file, refresh, flow) ==
    LET loaded == LoadToken(file)
    IN  IF loaded = <<>> \/ ~loaded[1].valid
        THEN LET try_refresh ==
                     loaded # <<>> /\ loaded[1].expired /\ loaded[1].refresh_token
                 after_refresh ==
                     IF try_refresh
                     THEN IF refresh = "refreshed"
                          THEN <<Credentials(TRUE, FALSE, TRUE, "refreshed")>>
                          ELSE <<>>
                     ELSE loaded
                 after_flow ==
                     IF after_refresh = <<>>
                     THEN <<Credentials(TRUE, FALSE, TRUE, "oauth_flow")>>
                     ELSE after_refresh
             IN  IF try_refresh /\ refresh = "TransportError" THEN Raised
                 ELSE IF after_refresh = <<>> /\ flow = "error" THEN Raised
                 ELSE Returned(after_flow, after_flow)
        ELSE Returned(loaded, <<>>)

----------------------------------------------------------------------------
(* main.py: the whole run *)

\* What the provider may hold: the spam and the safe message of the design's
\* scenarios, and an HTML-only message
Mailbox ==
    { [payload |->
         [headers |-> <<Header(NameFROM, Sender),
                        Header(NameSubject,
                               <<85, 114, 103, 101, 110, 116, 58, 32, 89, 111, 117,
                                 32, 87, 111, 110, 33>>)>>,   \* Urgent: You Won!
          mimeType |-> "text/plain",
          body |-> [data |->                  \* prize
                      <<99, 72, 74, 112, 101, 109, 85>>]],
       snippet |-> <<115>>],
      [payload |->
         [headers |-> <<Header(NameSubject,
                               <<77, 101, 101, 116, 105, 110, 103, 32, 110, 111, 116,
                                 101, 115>>)>>,               \* Meeting notes
          mimeType |-> "multipart/alternative",
          parts |-> <<Part("text/html", DataB),
                      Part("text/plain",      \* agenda
                           <<89, 87, 100, 108, 98, 109, 82, 104>>)>>],
       snippet |-> <<115>>],
      [payload |->
         [headers |-> <<>>,
          mimeType |-> "multipart/alternative",
          parts |-> <<Part("text/html", DataBad),
                      Part("text/html",       \* winner
                           <<100, 50, 108, 117, 98, 109, 86, 121>>)>>]] }

\* What one API request may come to: a result, HTTP 429 with a usable or an
\* unusable retry-after, another HTTP error, or any other exception
Responses == {"ok", "429", "429_bad_retry_after", "http_error", "exception"}

Event(op, id, is_spam) == [op |-> op, id |-> id, is_spam |-> is_spam]

Init ==
    /\ pc = "authenticate"
    /\ DRY_RUN \in BOOLEAN
    /\ credentials_file \in BOOLEAN
    /\ token_file \in TokenFiles
    /\ creds = <<>> /\ written = <<>>
    /\ message_ids = <<>> /\ idx = 0
    /\ message = NoMessage /\ email_data = NoEmail /\ verdict = NoVerdict
    /\ spam_keywords = <<>>
    /\ api_calls = 0
    /\ spam_count = 0 /\ safe_count = 0 /\ error_count = 0
    /\ trace = <<>>

\* main.py 36-45: authenticate(); any exception ends the run
Authenticate ==
    /\ pc = "authenticate"
    /\ \E refresh \in RefreshOutcomes, flow \in FlowOutcomes :
         LET r == authenticate(token_file, refresh, flow) IN
         IF ~credentials_file \/ r.raised
         THEN /\ pc' = "done"
              /\ UNCHANGED <<creds, written, token_file>>
         ELSE /\ pc' = "init_client"
              /\ creds' = r.creds
              /\ written' = written \o r.written
              /\ token_file' = IF r.written = <<>> THEN token_file
                               ELSE <<[parseable |-> TRUE, creds |-> r.written[1]]>>
    /\ UNCHANGED <<DRY_RUN, credentials_file, message_ids, idx, message, email_data,
                   verdict, spam_keywords, api_calls, spam_count, safe_count,
                   error_count, trace>>

\* main.py 48-59: GmailClient(credentials), then EmailClassifier()
InitClient ==
    /\ pc = "init_client"
    /\ \E built \in BOOLEAN :
         IF built
         THEN pc' = "fetch" /\ spam_keywords' = DefaultSpamKeywords
         ELSE pc' = "done" /\ UNCHANGED spam_keywords
    /\ UNCHANGED <<DRY_RUN, credentials_file, token_file, creds, written, message_ids,
                   idx, message, email_data, verdict, api_calls, spam_count,
                   safe_count, error_count, trace>>

\* Requests the current client call has issued before this one: none when main
\* has just made the call, api_calls when the 429 handler has called again
Issued(entry) == IF pc = entry THEN 0 ELSE api_calls

\* The 429 handler calls the method again (its recursion is cut at MaxApiCalls)
RetriesOn429(resp, issued) == resp = "429" /\ issued + 1 < MaxApiCalls

\* GmailClient.fetch_unread_messages, one request, and main.py 68-83
FetchUnreadMessages ==
    /\ pc \in {"fetch", "fetch_retry"}
    /\ \E resp \in Responses, n \in 0..MaxMessages :
         /\ resp = "429" => Issued("fetch") + 1 < MaxApiCalls
         /\ api_calls' = Issued("fetch") + 1
         /\ IF RetriesOn429(resp, Issued("fetch"))
            THEN pc' = "fetch_retry" /\ UNCHANGED <<message_ids, idx>>
            ELSE IF resp = "ok" /\ n > 0
                 THEN /\ message_ids' = [i \in 1..n |-> i]
                      /\ idx' = 1
                      /\ pc' = "get"
            ELSE pc' = "done" /\ UNCHANGED <<message_ids, idx>>
    /\ UNCHANGED <<DRY_RUN, credentials_file, token_file, creds, written, message,
                   email_data, verdict, spam_keywords, spam_count, safe_count,
                   error_count, trace>>

\* `continue`, or the end of the for loop
AtNextMessage == IF idx < Len(message_ids) THEN "get" ELSE "done"
NextIndex == IF idx < Len(message_ids) THEN idx + 1 ELSE idx

\* GmailClient.get_email_content, one request, and main.py 98-113
GetEmailContent ==
    /\ pc \in {"get", "get_retry"}
    /\ \E resp \in Responses, msg \in Mailbox :
         /\ resp = "429" => Issued("get") + 1 < MaxApiCalls
         /\ api_calls' = Issued("get") + 1
         /\ IF RetriesOn429(resp, Issued("get"))
            THEN /\ pc' = "get_retry"
                 /\ UNCHANGED <<message, email_data, error_count, idx, trace>>
            ELSE IF resp = "ok"
                 THEN /\ message' = msg
                      /\ email_data' = ExtractContent(msg)
                      /\ trace' = Append(trace,
                                         Event("get_email_content", message_ids[idx], FALSE))
                      /\ pc' = "classify"
                      /\ UNCHANGED <<error_count, idx>>
            ELSE /\ error_count' = error_count + 1
                 /\ pc' = AtNextMessage
                 /\ idx' = NextIndex
                 /\ UNCHANGED <<message, email_data, trace>>
    /\ UNCHANGED <<DRY_RUN, credentials_file, token_file, creds, written, message_ids,
                   verdict, spam_keywords, spam_count, safe_count>>

\* A mutant of main.py 122-131: the dry-run flag is not consulted
MoveRequestedIgnoringDryRun(is_spam, dry_run) == is_spam

\* main.py 122-131: move_to_trash is called for spam unless DRY_RUN
MoveRequested(is_spam, dry_run) == is_spam /\ ~dry_run

\* main.py 116-141: analyze_email and the counters
Classify ==
    /\ pc = "classify"
    /\ LET v == analyze_email(spam_keywords, email_data.subject, email_data.body) IN
         /\ verdict' = v
         /\ trace' = Append(trace, Event("analyze_email", message_ids[idx], v.is_spam))
         /\ spam_count' = IF v.is_spam THEN spam_count + 1 ELSE spam_count
         /\ safe_count' = IF v.is_spam THEN safe_count ELSE safe_count + 1
         /\ IF MoveRequested(v.is_spam, DRY_RUN)
            THEN pc' = "trash" /\ UNCHANGED idx
            ELSE pc' = AtNextMessage /\ idx' = NextIndex
    /\ UNCHANGED <<DRY_RUN, credentials_file, token_file, creds, written, message_ids,
                   message, email_data, spam_keywords, api_calls, error_count>>

\* GmailClient.move_to_trash, one request, and main.py 130-138
MoveToTrash ==
    /\ pc \in {"trash", "trash_retry"}
    /\ \E resp \in Responses :
         /\ resp = "429" => Issued("trash") + 1 < MaxApiCalls
         /\ api_calls' = Issued("trash") + 1
         /\ trace' = IF pc = "trash"
                     THEN Append(trace, Event("move_to_trash", message_ids[idx], FALSE))
                     ELSE trace
         /\ IF RetriesOn429(resp, Issued("trash"))
            THEN pc' = "trash_retry" /\ UNCHANGED <<error_count, idx>>
            ELSE /\ error_count' = IF resp = "ok" THEN error_count ELSE error_count + 1
                 /\ pc' = AtNextMessage
                 /\ idx' = NextIndex
    /\ UNCHANGED <<DRY_RUN, credentials_file, token_file, creds, written, message_ids,
                   message, email_data, verdict, spam_keywords, spam_count, safe_count>>

Next ==
    \/ Authenticate
    \/ InitClient
    \/ FetchUnreadMessages
    \/ GetEmailContent
    \/ Classify
    \/ MoveToTrash

Spec == Init /\ [][Next]_vars


----------------------------------------------------------------------------
(* Claims about main() *)

TrashRequests == {k \in 1..Len(trace) : trace[k].op = "move_to_trash"}

\* C1: move_to_trash(m) is requested only if DRY_RUN is false and only after
\* get_email_content(m) has returned and analyze_email has returned is_spam =
\* TRUE for m, in that order; with DRY_RUN true it is never requested or due.
C1_TrashOnlyForClassifiedSpam ==
    /\ \A k \in TrashRequests :
         /\ ~DRY_RUN
         /\ \E i \in 1..(k - 1), j \in 1..(k - 1) :
              /\ i < j
              /\ trace[i] = Event("get_email_content", trace[k].id, FALSE)
              /\ trace[j] = Event("analyze_email", trace[k].id, TRUE)
    /\ DRY_RUN => pc \notin {"trash", "trash_retry"}

C1_Witness == TrashRequests # {} /\ pc = "done"

\* C9: one client call issues its API request at most twice, whatever the
\* provider answers.
C9_AtMostTwoRequests == api_calls <= 2

\* C10: what authenticate() returned is valid - the stored token if it was
\* valid, a refreshed token or a token of a new OAuth flow - and token.json is
\* written only with valid credentials.
C10_ReturnedCredentialsValid ==
    /\ creds # <<>> => creds[1].valid
    /\ \A k \in 1..Len(written) : written[k].valid

\* C11: at the end of the processing loop every fetched message id has been
\* counted in exactly one of spam_count, safe_count and error_count, so the
\* three counters add up to the number of fetched message ids.
C11_CountersPartitionMessages ==
    pc = "done" => spam_count + safe_count + error_count = Len(message_ids)

----------------------------------------------------------------------------
(* Claims about the classifier *)

\* phrase occurs in text when case is ignored, character by character
CaseInsensitiveSubstring(text, phrase) ==
    \E off \in 0..(Len(text) - Len(phrase)) :
        \A j \in 1..Len(phrase) : LowerChar(text[off + j]) = LowerChar(phrase[j])

MatchSet(keywords, subject, body) ==
    {i \in 1..Len(keywords) :
        CaseInsensitiveSubstring(subject \o SPACE \o body, keywords[i])}

Matching == MatchSet(spam_keywords, email_data.subject, email_data.body)

\* C2: is_spam is TRUE exactly when some phrase of the keyword list occurs,
\* case ignored, in subject + " " + body; with no such phrase is_spam is FALSE
\* and confidence is 0.0.
C2_SpamIffSomeKeyword ==
    pc = "analyzed" =>
        /\ verdict.is_spam <=> Matching # {}
        /\ Matching = {} => ~verdict.is_spam /\ verdict.confidence.num = 0

C2_Witness ==
    /\ pc = "analyzed"
    /\ verdict.is_spam
    /\ email_data.subject # Lower(email_data.subject)
    /\ \E i \in Matching : spam_keywords[i] # Lower(spam_keywords[i])

\* C3: with n phrases of which m match, confidence is min(1, 2m/n) for n > 0
\* and 0 for n = 0; it lies in [0, 1] and is 1 exactly when 2m >= n and n > 0.
C3_ConfidenceFormula ==
    pc = "analyzed" =>
        LET m == Cardinality(Matching)
            n == Len(spam_keywords)
            c == verdict.confidence
        IN  /\ n > 0 => RatEq(c, IF 2 * m >= n THEN RatOne ELSE Rat(2 * m, n))
            /\ n = 0 => c.num = 0
            /\ c.den > 0 /\ RatLeq(RatZero, c) /\ RatLeq(c, RatOne)
            /\ RatEq(c, RatOne) <=> (n > 0 /\ 2 * m >= n)

C3_Witness ==
    /\ pc = "analyzed"
    /\ Len(spam_keywords) >= 3
    /\ 2 * Cardinality(Matching) > Len(spam_keywords)
    /\ RatEq(verdict.confidence, RatOne)

\* C4: for the same keyword list, a text whose matching keywords include those
\* of the classified text never gets a lower confidence.
C4_ConfidenceMonotone ==
    pc = "analyzed" =>
        \A s2 \in Subjects, b2 \in Bodies :
            Matching \subseteq MatchSet(spam_keywords, s2, b2) =>
                RatLeq(verdict.confidence,
                       analyze_email(spam_keywords, s2, b2).confidence)

C4_Witness ==
    /\ pc = "analyzed"
    /\ Matching # {}
    /\ \E s2 \in Subjects, b2 \in Bodies :
         /\ Matching \subseteq MatchSet(spam_keywords, s2, b2)
         /\ Matching # MatchSet(spam_keywords, s2, b2)
         /\ RatLess(verdict.confidence, analyze_email(spam_keywords, s2, b2).confidence)

----------------------------------------------------------------------------
(* Claims about the extractor *)

IsMultipart == "parts" \in DOMAIN message.payload

PartsOf(mime_type) ==
    {k \in 1..Len(message.payload.parts) : MimeType(message.payload.parts[k]) = mime_type}

WithData(mime_type) ==
    {k \in PartsOf(mime_type) : PartData(message.payload.parts[k]) # <<>>}

DecodedPart(k) == _decode_base64url(PartData(message.payload.parts[k]))

\* C5: in a multipart payload with a text/plain part that has data, the body
\* is the decoded data of the first such part, whatever comes before or after.
C5_FirstPlainWins ==
    (pc = "extracted" /\ IsMultipart /\ WithData("text/plain") # {}) =>
        email_data.body = DecodedPart(FirstOf(WithData("text/plain")))

C5_Witness ==
    /\ pc = "extracted" /\ IsMultipart
    /\ \E h \in WithData("text/html") :
         /\ h < FirstOf(WithData("text/plain"))
         /\ DecodedPart(h) # <<>>
         /\ DecodedPart(h) # email_data.body
    /\ email_data.body = <<72, 105>>

\* C6: in a multipart payload with no text/plain part, the body is the decoded
\* data of the first text/html part that has data, whatever it decodes to.
C6_FirstHtmlWins ==
    (pc = "extracted" /\ IsMultipart /\ PartsOf("text/plain") = {}
        /\ WithData("text/html") # {}) =>
        email_data.body = DecodedPart(FirstOf(WithData("text/html")))

\* The data of the part the selection policy picks: the first text/plain part
\* with data, else the first text/html part with data; a single-part payload
\* itself if it is text/plain or text/html and has data.  <<>> if none.
SelectedData ==
    IF IsMultipart
    THEN IF WithData("text/plain") # {}
         THEN PartData(message.payload.parts[FirstOf(WithData("text/plain"))])
         ELSE IF WithData("text/html") # {}
              THEN PartData(message.payload.parts[FirstOf(WithData("text/html"))])
         ELSE <<>>
    ELSE IF MimeType(message.payload) \in {"text/plain", "text/html"}
         THEN PartData(message.payload)
    ELSE <<>>

Base64UrlFails(data) ==
    ~b64decode(ReplaceChar(ReplaceChar(Padded(data), 45, 43), 95, 47)).ok

HeadersOf(msg) == Get(msg.payload, "headers", <<>>)

\* C7: when base64url decoding of the selected body part fails, the record has
\* body = "" and subject, from_email and snippet as the message gives them.
C7_DecodeFailureGivesEmptyBody ==
    (pc = "extracted" /\ SelectedData # <<>> /\ Base64UrlFails(SelectedData)) =>
        /\ email_data.body = <<>>
        /\ email_data.snippet = Get(message, "snippet", <<>>)
        /\ email_data.subject
             = ScanHeaders(HeadersOf(message), [subject |-> <<>>, from_email |-> <<>>]).subject
        /\ email_data.from_email
             = ScanHeaders(HeadersOf(message), [subject |-> <<>>, from_email |-> <<>>]).from_email

SubjectHeaders ==
    {k \in 1..Len(HeadersOf(message)) : Lower(HeadersOf(message)[k].name) = HeaderSubject}

\* The value of the Subject header that get_email_content keeps: the last one
LastSubject ==
    HeadersOf(message)[CHOOSE k \in SubjectHeaders : \A j \in SubjectHeaders : j <= k].value

HeaderDecodeFails(value) == ~TryDecodeHeader(decode_header(value)).ok

\* C8 as stated: when decoding of the Subject header fails, the subject of the
\* record is the empty string.
C8_FailedSubjectIsEmpty ==
    (pc = "extracted" /\ SubjectHeaders # {} /\ HeaderDecodeFails(LastSubject)) =>
        email_data.subject = <<>>

\* C8 as amended: when decoding of the Subject header fails, the subject of the
\* record is the raw header value, unchanged.
C8_FailedSubjectIsRawValue ==
    (pc = "extracted" /\ SubjectHeaders # {} /\ HeaderDecodeFails(LastSubject)) =>
        email_data.subject = LastSubject

C8_Witness ==
    /\ pc = "extracted" /\ SubjectHeaders # {}
    /\ HeaderDecodeFails(LastSubject)
    /\ email_data.subject = LastSubject
    /\ email_data.subject # <<>>
    /\ email_data.body # <<>>


====
